---- MODULE Spec2Model ----
(***************************************************************************)
(* Model of the stress-test harness, crates/stress-test/src/main.rs:       *)
(* run_stress_test.  N driver futures live in a FuturesUnordered and are   *)
(* polled only by the control loop's tracker.next(); the control loop is   *)
(* a tokio::select! over barrier release, watchdog, ctrl_c and the stream. *)
(***************************************************************************)
EXTENDS Integers, FiniteSets, Sequences, TLC

\* ---- bounds of the model ------------------------------------------------
MaxCount == 2
MaxParallel == 2
MaxTimeout == 1
MaxTime == 2

\* start.get() of an OnceCell that was never set
Unset == -1

VARIABLES
    count,      \* cli.count
    parallel,   \* cli.parallel
    timeout,    \* cli.timeout, in clock ticks
    pc,         \* pc[i]: the await point driver i is suspended before
    failedAt,   \* failedAt[i]: the step whose `?` returned Err, or "none"
    holders,    \* drivers owning an OwnedSemaphorePermit
    available,  \* free permits of the semaphore
    arrived,    \* parties that called barrier.wait()
    released,   \* the barrier's generation has completed
    start,      \* the OnceCell<Instant>
    reported,   \* drivers whose outcome tracker.next() has yielded
    orchArrived,\* setup_done has been polled once (the orchestrator arrived)
    phase,      \* "Setup" until setup_done.is_terminated(), then "Measuring"
    stop,       \* why the loop broke: "none" while it runs
    exit,       \* what run_stress_test returned after the loop
    incomplete, success, failed,
    now,        \* the clock
    iterStart,  \* instant the current select! was entered
    obsAt,      \* instant the loop consumed setup_done
    stopAt      \* instant the loop broke

vars == <<count, parallel, timeout, pc, failedAt, holders, available, arrived,
          released, start, reported, orchArrived, phase, stop, exit,
          incomplete, success, failed, now, iterStart, obsAt, stopAt>>

Drivers == 1..count

\* let permits = if parallel == 0 { count } else { parallel };
Permits(c, p) == IF p = 0 THEN c ELSE p

\* (variant: the orchestrator is not counted as a party)
BarrierPartiesDriversOnly == count

\* Barrier::new(count + 1)
BarrierParties == count + 1

Init ==
    /\ count \in 0..MaxCount
    /\ parallel \in 0..MaxParallel
    /\ timeout \in 0..MaxTimeout
    /\ pc = [i \in Drivers |-> "task"]
    /\ failedAt = [i \in Drivers |-> "none"]
    /\ holders = {}
    /\ available = Permits(count, parallel)
    /\ arrived = 0
    /\ released = FALSE
    /\ start = Unset
    /\ reported = {}
    /\ orchArrived = FALSE
    /\ phase = "Setup"
    /\ stop = "none"
    /\ exit = "running"
    /\ incomplete = count
    /\ success = 0
    /\ failed = 0
    /\ now = 0
    /\ iterStart = 0
    /\ obsAt = Unset
    /\ stopAt = Unset

\* The drivers are futures inside `tracker`: they run only while the loop
\* polls tracker.next(); after a break nothing polls them any more.
Polled == stop = "none"

arbVars == <<orchArrived, phase, stop, exit, incomplete, success, failed,
             iterStart, obsAt, stopAt, reported>>
inputVars == <<count, parallel, timeout>>

\* the await points of the driver future, in program order
StepOrder == <<"task", "arrive", "barrier", "acquire", "create", "start",
               "wait", "delete", "done">>

\* position of an await point in the driver future
Rank(s) == CHOOSE k \in 1..Len(StepOrder) : StepOrder[k] = s

\* (variant: the error is swallowed and the driver goes on to the next step)
FailContinues(i, step) ==
    /\ pc' = [pc EXCEPT ![i] = StepOrder[Rank(step) + 1]]
    /\ failedAt' = [failedAt EXCEPT ![i] = step]
    /\ UNCHANGED <<holders, available>>

\* (variant: the permit is not dropped on the error path)
FailKeepsPermit(i, step) ==
    /\ pc' = [pc EXCEPT ![i] = "done"]
    /\ failedAt' = [failedAt EXCEPT ![i] = step]
    /\ UNCHANGED <<holders, available>>

\* A `?` that returns Err: the future completes, a held permit is dropped.
Fail(i, step) ==
    /\ pc' = [pc EXCEPT ![i] = "done"]
    /\ failedAt' = [failedAt EXCEPT ![i] = step]
    /\ holders' = holders \ {i}
    /\ available' = IF i \in holders THEN available + 1 ELSE available

\* let task = shim.task(image, args).await?;
ShimTask(i) ==
    /\ Polled /\ pc[i] = "task"
    /\ \E ok \in BOOLEAN :
         IF ok THEN /\ pc' = [pc EXCEPT ![i] = "arrive"]
                    /\ UNCHANGED <<failedAt, holders, available>>
               ELSE Fail(i, "task")
    /\ UNCHANGED <<arrived, released, start, now>>
    /\ UNCHANGED arbVars /\ UNCHANGED inputVars

\* the arrival of one party; the last one completes the generation
Arrive ==
    /\ arrived' = arrived + 1
    /\ released' = (released \/ arrived + 1 = BarrierParties)

\* barrier.wait(), first poll: the driver arrives
BarrierArrive(i) ==
    /\ Polled /\ pc[i] = "arrive"
    /\ Arrive
    /\ pc' = [pc EXCEPT ![i] = "barrier"]
    /\ UNCHANGED <<failedAt, holders, available, start, now>>
    /\ UNCHANGED arbVars /\ UNCHANGED inputVars

\* (variant: barrier.wait() without .await, the driver does not suspend)
BarrierPassNoWait(i) ==
    /\ Polled /\ pc[i] = "barrier"
    /\ pc' = [pc EXCEPT ![i] = "acquire"]
    /\ UNCHANGED <<failedAt, holders, available, arrived, released, start, now>>
    /\ UNCHANGED arbVars /\ UNCHANGED inputVars

\* barrier.wait().await returns once every party arrived
BarrierPass(i) ==
    /\ Polled /\ pc[i] = "barrier"
    /\ released
    /\ pc' = [pc EXCEPT ![i] = "acquire"]
    /\ UNCHANGED <<failedAt, holders, available, arrived, released, start, now>>
    /\ UNCHANGED arbVars /\ UNCHANGED inputVars

\* (variant: the acquire does not wait for a free permit)
CanAcquireAlways == TRUE

\* Semaphore::acquire_owned resolves only when a permit is free
CanAcquire == available > 0

\* (variant: a plain cell that every set overwrites)
CellOverwrite(cell, v) == v

\* OnceCell::set: stores the value only if the cell is empty
OnceCellSet(cell, v) == IF cell = Unset THEN v ELSE cell

\* let permit = semaphore.acquire_owned().await?;
\* let _ = start.set(Instant::now());
Acquire(i) ==
    /\ Polled /\ pc[i] = "acquire"
    /\ CanAcquire
    /\ available' = available - 1
    /\ holders' = holders \cup {i}
    /\ start' = OnceCellSet(start, now)
    /\ pc' = [pc EXCEPT ![i] = "create"]
    /\ UNCHANGED <<failedAt, arrived, released, now>>
    /\ UNCHANGED arbVars /\ UNCHANGED inputVars

\* task.create(container_output).await?;
TaskCreate(i) ==
    /\ Polled /\ pc[i] = "create"
    /\ \E ok \in BOOLEAN :
         IF ok THEN /\ pc' = [pc EXCEPT ![i] = "start"]
                    /\ UNCHANGED <<failedAt, holders, available>>
               ELSE Fail(i, "create")
    /\ UNCHANGED <<arrived, released, start, now>>
    /\ UNCHANGED arbVars /\ UNCHANGED inputVars

\* (variant: the permit is not dropped after start and stays held in wait)
TaskStartKeepsPermit(i) ==
    /\ Polled /\ pc[i] = "start"
    /\ \E ok \in BOOLEAN :
         IF ok THEN /\ pc' = [pc EXCEPT ![i] = "wait"]
                    /\ UNCHANGED <<failedAt, holders, available>>
               ELSE Fail(i, "start")
    /\ UNCHANGED <<arrived, released, start, now>>
    /\ UNCHANGED arbVars /\ UNCHANGED inputVars

\* task.start().await?;  drop(permit);
TaskStart(i) ==
    /\ Polled /\ pc[i] = "start"
    /\ \E ok \in BOOLEAN :
         IF ok THEN /\ pc' = [pc EXCEPT ![i] = "wait"]
                    /\ holders' = holders \ {i}
                    /\ available' = available + 1
                    /\ UNCHANGED failedAt
               ELSE Fail(i, "start")
    /\ UNCHANGED <<arrived, released, start, now>>
    /\ UNCHANGED arbVars /\ UNCHANGED inputVars

\* task.wait().await?;
TaskWait(i) ==
    /\ Polled /\ pc[i] = "wait"
    /\ \E ok \in BOOLEAN :
         IF ok THEN /\ pc' = [pc EXCEPT ![i] = "delete"]
                    /\ UNCHANGED <<failedAt, holders, available>>
               ELSE Fail(i, "wait")
    /\ UNCHANGED <<arrived, released, start, now>>
    /\ UNCHANGED arbVars /\ UNCHANGED inputVars

\* task.delete().await?;  Ok(())
TaskDelete(i) ==
    /\ Polled /\ pc[i] = "delete"
    /\ \E ok \in BOOLEAN :
         IF ok THEN /\ pc' = [pc EXCEPT ![i] = "done"]
                    /\ UNCHANGED <<failedAt, holders, available>>
               ELSE Fail(i, "delete")
    /\ UNCHANGED <<arrived, released, start, now>>
    /\ UNCHANGED arbVars /\ UNCHANGED inputVars

drvVars == <<pc, failedAt, holders, available, start>>

\* first poll of `setup_done` (barrier.wait().fuse()) inside the select!
OrchArrive ==
    /\ stop = "none" /\ ~orchArrived
    /\ orchArrived' = TRUE
    /\ Arrive
    /\ UNCHANGED drvVars /\ UNCHANGED inputVars
    /\ UNCHANGED <<phase, stop, exit, incomplete, success, failed, iterStart,
                   obsAt, stopAt, reported, now>>

\* (variant: the barrier-release branch records the start instant)
SetupDoneRecordsStart ==
    /\ stop = "none" /\ orchArrived /\ released /\ phase = "Setup"
    /\ phase' = "Measuring"
    /\ obsAt' = now
    /\ iterStart' = now
    /\ start' = IF start = Unset THEN now ELSE start
    /\ UNCHANGED <<pc, failedAt, holders, available>> /\ UNCHANGED inputVars
    /\ UNCHANGED <<orchArrived, stop, exit, incomplete, success, failed,
                   stopAt, reported, arrived, released, now>>

\* _ = &mut setup_done => { ... }
SetupDone ==
    /\ stop = "none" /\ orchArrived /\ released /\ phase = "Setup"
    /\ phase' = "Measuring"
    /\ obsAt' = now
    /\ iterStart' = now
    /\ UNCHANGED drvVars /\ UNCHANGED inputVars
    /\ UNCHANGED <<orchArrived, stop, exit, incomplete, success, failed,
                   stopAt, reported, arrived, released, now>>

\* (variant: the precondition is inverted, `!setup_done.is_terminated()`)
WatchdogArmedInSetup == phase = "Setup"

\* (variant: the watchdog branch has no precondition)
WatchdogArmedAlways == TRUE

\* the branch precondition `if setup_done.is_terminated()`
WatchdogArmed == phase = "Measuring"

\* utils::watchdog(timeout), called anew by every select!: a timer of
\* `timeout` from the call, never ready when the timeout is zero
watchdog(calledAt) == timeout > 0 /\ now >= calledAt + timeout

\* _ = watchdog(timeout), if setup_done.is_terminated() => { break; }
Timeout ==
    /\ stop = "none"
    /\ WatchdogArmed
    /\ watchdog(iterStart)
    /\ stop' = "Timeout"
    /\ stopAt' = now
    /\ UNCHANGED drvVars /\ UNCHANGED inputVars
    /\ UNCHANGED <<orchArrived, phase, exit, incomplete, success, failed,
                   iterStart, obsAt, reported, arrived, released, now>>

\* _ = ctrl_c() => { break; }
CtrlC ==
    /\ stop = "none"
    /\ stop' = "Cancelled"
    /\ stopAt' = now
    /\ UNCHANGED drvVars /\ UNCHANGED inputVars
    /\ UNCHANGED <<orchArrived, phase, exit, incomplete, success, failed,
                   iterStart, obsAt, reported, arrived, released, now>>

\* (variant: the Err arm forgets to decrement)
IncompleteAfterErrKept == incomplete

\* incomplete -= 1 of the Err arm
IncompleteAfterErr == incomplete - 1

\* (variant: the Err arm breaks out of the loop)
TrackerNextBreaksOnErr(i) ==
    /\ stop = "none"
    /\ pc[i] = "done" /\ i \notin reported
    /\ reported' = reported \cup {i}
    /\ IF failedAt[i] = "none"
         THEN /\ incomplete' = incomplete - 1
              /\ success' = success + 1
              /\ UNCHANGED <<failed, stop, stopAt>>
         ELSE /\ incomplete' = IncompleteAfterErr
              /\ failed' = failed + 1
              /\ stop' = "AllReported"
              /\ stopAt' = now
              /\ UNCHANGED success
    /\ iterStart' = now
    /\ UNCHANGED drvVars /\ UNCHANGED inputVars
    /\ UNCHANGED <<orchArrived, phase, exit, obsAt, arrived, released, now>>

\* (variant: outcomes that are ready are still drained after the break)
TrackerNextAfterStop(i) ==
    /\ exit = "running"
    /\ pc[i] = "done" /\ i \notin reported
    /\ reported' = reported \cup {i}
    /\ IF failedAt[i] = "none"
         THEN /\ incomplete' = incomplete - 1
              /\ success' = success + 1
              /\ UNCHANGED failed
         ELSE /\ incomplete' = IncompleteAfterErr
              /\ failed' = failed + 1
              /\ UNCHANGED success
    /\ iterStart' = now
    /\ UNCHANGED drvVars /\ UNCHANGED inputVars
    /\ UNCHANGED <<orchArrived, phase, stop, exit, obsAt, stopAt, arrived,
                   released, now>>

\* res = tracker.next() => Some(res): one finished driver's outcome
TrackerNext(i) ==
    /\ stop = "none"
    /\ pc[i] = "done" /\ i \notin reported
    /\ reported' = reported \cup {i}
    /\ IF failedAt[i] = "none"
         THEN /\ incomplete' = incomplete - 1
              /\ success' = success + 1
              /\ UNCHANGED failed
         ELSE /\ incomplete' = IncompleteAfterErr
              /\ failed' = failed + 1
              /\ UNCHANGED success
    /\ iterStart' = now
    /\ UNCHANGED drvVars /\ UNCHANGED inputVars
    /\ UNCHANGED <<orchArrived, phase, stop, exit, obsAt, stopAt, arrived,
                   released, now>>

\* res = tracker.next() => None: the stream is exhausted, break
TrackerEmpty ==
    /\ stop = "none"
    /\ reported = Drivers
    /\ stop' = "AllReported"
    /\ stopAt' = now
    /\ UNCHANGED drvVars /\ UNCHANGED inputVars
    /\ UNCHANGED <<orchArrived, phase, exit, incomplete, success, failed,
                   iterStart, obsAt, reported, arrived, released, now>>

\* (variant: the summary tests `failed != 0` instead of `success != count`)
SummaryTestsFailed ==
    /\ stop # "none" /\ exit = "running"
    /\ exit' = IF failed # 0 THEN "err"
               ELSE IF start = Unset THEN "panic"
               ELSE "ok"
    /\ UNCHANGED drvVars /\ UNCHANGED inputVars
    /\ UNCHANGED <<orchArrived, phase, stop, incomplete, success, failed,
                   iterStart, obsAt, stopAt, reported, arrived, released, now>>

\* after the loop: bail!, or start.get().unwrap() and the success summary
Summary ==
    /\ stop # "none" /\ exit = "running"
    /\ exit' = IF success # count THEN "err"
               ELSE IF start = Unset THEN "panic"
               ELSE "ok"
    /\ UNCHANGED drvVars /\ UNCHANGED inputVars
    /\ UNCHANGED <<orchArrived, phase, stop, incomplete, success, failed,
                   iterStart, obsAt, stopAt, reported, arrived, released, now>>

\* A branch of the select! is ready: the loop serves it at once.
BranchReady ==
    \/ ~orchArrived
    \/ (orchArrived /\ released /\ phase = "Setup")
    \/ (WatchdogArmed /\ watchdog(iterStart))
    \/ \E i \in Drivers : pc[i] = "done" /\ i \notin reported
    \/ reported = Drivers

\* Time passes while the loop is suspended in the select! with no branch
\* ready (the backend calls of the drivers are what takes time).
Tick ==
    /\ stop = "none"
    /\ now < MaxTime
    /\ ~BranchReady
    /\ now' = now + 1
    /\ UNCHANGED drvVars /\ UNCHANGED inputVars
    /\ UNCHANGED <<orchArrived, phase, stop, exit, incomplete, success, failed,
                   iterStart, obsAt, stopAt, reported, arrived, released>>

DriverStep ==
    \/ \E i \in Drivers : ShimTask(i)
    \/ \E i \in Drivers : BarrierArrive(i)
    \/ \E i \in Drivers : BarrierPass(i)
    \/ \E i \in Drivers : Acquire(i)
    \/ \E i \in Drivers : TaskCreate(i)
    \/ \E i \in Drivers : TaskStart(i)
    \/ \E i \in Drivers : TaskWait(i)
    \/ \E i \in Drivers : TaskDelete(i)

LoopStep ==
    \/ OrchArrive
    \/ SetupDone
    \/ Timeout
    \/ \E i \in Drivers : TrackerNext(i)
    \/ TrackerEmpty

Next ==
    \/ DriverStep
    \/ LoopStep
    \/ CtrlC
    \/ Summary
    \/ Tick

Spec == Init /\ [][Next]_vars

\* The runtime keeps polling: a select! branch that stays ready is taken,
\* and the code after the loop runs.
LoopFair ==
    /\ WF_vars(OrchArrive)
    /\ WF_vars(SetupDone)
    /\ WF_vars(Timeout)
    /\ WF_vars(\E i \in Drivers : TrackerNext(i))
    /\ WF_vars(TrackerEmpty)
    /\ WF_vars(Summary)

\* The clock advances while the loop is suspended.
ClockFair == WF_vars(Tick)

\* A polled driver gets through construction, barrier, admission, create and
\* start: these backend calls return and a woken future is polled again.
StartFair(i) ==
    /\ WF_vars(i \in Drivers /\ ShimTask(i))
    /\ WF_vars(i \in Drivers /\ BarrierArrive(i))
    /\ WF_vars(i \in Drivers /\ BarrierPass(i))
    /\ WF_vars(i \in Drivers /\ Acquire(i))
    /\ WF_vars(i \in Drivers /\ TaskCreate(i))
    /\ WF_vars(i \in Drivers /\ TaskStart(i))

\* task.wait() and task.delete() return as well
WaitFair(i) ==
    /\ WF_vars(i \in Drivers /\ TaskWait(i))
    /\ WF_vars(i \in Drivers /\ TaskDelete(i))

\* --timeout 0: watchdog(timeout) is never ready, the branch never taken
NoTimeoutInit == Init /\ timeout = 0

\* The steps of a run without a timeout.  No timer is armed, so the passing
\* of time decides nothing here and the clock is left at its first instant.
NextNoTimeout ==
    \/ DriverStep
    \/ OrchArrive
    \/ SetupDone
    \/ \E i \in Drivers : TrackerNext(i)
    \/ TrackerEmpty
    \/ CtrlC
    \/ Summary

\* runs without a timeout in which every backend call returns
FairSpec ==
    /\ NoTimeoutInit /\ [][NextNoTimeout]_vars
    /\ LoopFair /\ \A i \in 1..MaxCount : StartFair(i) /\ WaitFair(i)

\* runs without a timeout in which every backend call but wait and delete
\* returns; those two may hang
AdmissionFairSpec ==
    /\ NoTimeoutInit /\ [][NextNoTimeout]_vars
    /\ LoopFair /\ \A i \in 1..MaxCount : StartFair(i)

\* --timeout > 0
WithTimeoutInit == Init /\ timeout > 0

\* the backend's wait never returns: no driver gets past task.wait()
NextWaitHangs ==
    \/ \E i \in Drivers : ShimTask(i)
    \/ \E i \in Drivers : BarrierArrive(i)
    \/ \E i \in Drivers : BarrierPass(i)
    \/ \E i \in Drivers : Acquire(i)
    \/ \E i \in Drivers : TaskCreate(i)
    \/ \E i \in Drivers : TaskStart(i)
    \/ LoopStep
    \/ CtrlC
    \/ Summary
    \/ Tick

\* runs with a timeout against a backend whose wait calls never return
WaitHangsFairSpec ==
    /\ WithTimeoutInit /\ [][NextWaitHangs]_vars
    /\ LoopFair /\ ClockFair /\ \A i \in 1..MaxCount : StartFair(i)

TypeOK ==
    /\ count \in 0..MaxCount /\ parallel \in 0..MaxParallel
    /\ timeout \in 0..MaxTimeout
    /\ pc \in [Drivers -> {"task", "arrive", "barrier", "acquire", "create",
                           "start", "wait", "delete", "done"}]
    /\ failedAt \in [Drivers -> {"none", "task", "create", "start", "wait",
                                 "delete"}]
    /\ holders \subseteq Drivers
    /\ available \in 0..(MaxCount + MaxParallel)
    /\ arrived \in 0..(MaxCount + 1)
    /\ released \in BOOLEAN /\ orchArrived \in BOOLEAN
    /\ start \in {Unset} \cup 0..MaxTime
    /\ reported \subseteq Drivers
    /\ phase \in {"Setup", "Measuring"}
    /\ stop \in {"none", "Timeout", "Cancelled", "AllReported"}
    /\ exit \in {"running", "ok", "err", "panic"}
    /\ incomplete \in 0..MaxCount /\ success \in 0..MaxCount
    /\ failed \in 0..MaxCount
    /\ now \in 0..MaxTime /\ iterStart \in 0..MaxTime
    /\ obsAt \in {Unset} \cup 0..MaxTime /\ stopAt \in {Unset} \cup 0..MaxTime

\* ---- properties ----------------------------------------------------------

\* C1: in every reachable state the number of drivers holding an admission
\* permit is at most P when P > 0 and at most N when P = 0.
C1_PermitBound ==
    Cardinality(holders) <= (IF parallel > 0 THEN parallel ELSE count)

\* the pool is exhausted and another driver is waiting for a slot
C1_Witness ==
    /\ parallel = 1 /\ count >= 2
    /\ Cardinality(holders) = 1
    /\ \E i \in Drivers : pc[i] = "acquire"

\* C2: success + failed + incomplete = N in every state of the loop and at
\* run end, whatever the stop reason and the order of completions.
C2_CountersSum == success + failed + incomplete = count

\* a finished run that consumed an Ok and an Err outcome
C2_Witness == exit # "running" /\ success >= 1 /\ failed >= 1

\* C3: when no backend operation failed and the loop stopped by neither
\* timeout nor interrupt, the run reports success = N, failed = 0,
\* incomplete = 0 with a throughput computed from a recorded start instant,
\* for every N and P.
C3_AllSucceedReportsSuccess ==
    (/\ exit # "running"
     /\ stop = "AllReported"
     /\ \A i \in Drivers : failedAt[i] = "none")
    => (/\ exit = "ok"
        /\ success = count /\ failed = 0 /\ incomplete = 0
        /\ start # Unset)

\* C4: a driver whose task construction failed does not block the others:
\* once every driver is through step 1 and the orchestrator has arrived, the
\* Setup Barrier is released for the drivers whose construction succeeded.
C4_FailedConstructionDoesNotBlock ==
    (/\ \E i \in Drivers : failedAt[i] = "task"
     /\ \A i \in Drivers : pc[i] \notin {"task", "arrive"}
     /\ orchArrived)
    => released

\* a step of the program itself: no interrupt, no passing of time
ProgramStep == DriverStep \/ LoopStep \/ Summary

\* C5: with count >= 2, exactly one failed task construction and no other
\* failure, the run is never stuck short of its end without an interrupt:
\* the program can take a step, or an armed watchdog is running.
C5_TerminatesWithoutInterrupt ==
    (/\ count >= 2
     /\ Cardinality({i \in Drivers : failedAt[i] = "task"}) = 1
     /\ \A i \in Drivers : failedAt[i] \in {"none", "task"}
     /\ exit = "running")
    => (\/ ENABLED ProgramStep
        \/ (stop = "none" /\ WatchdogArmed /\ timeout > 0))

\* C6: a loop stopped by the watchdog or the interrupt is never reported as
\* a success, even if success = N at that moment.
C6_StopIsFailure ==
    (stop \in {"Timeout", "Cancelled"}) => exit # "ok"

\* C7: with timeout T > 0 the measurement phase ends no later than T after
\* the loop observed the barrier release; consuming completions does not
\* extend the deadline.
C7_TimeoutBoundsMeasurement ==
    (timeout > 0 /\ obsAt # Unset)
    => (IF stop = "none" THEN now ELSE stopAt) <= obsAt + timeout

\* C8: the loop never stops with Timeout while the phase is Setup, and the
\* time before the barrier release is not charged to the timeout.
C8_NoTimeoutDuringSetup ==
    stop = "Timeout"
    => (/\ phase = "Measuring"
        /\ obsAt # Unset
        /\ stopAt >= obsAt + timeout)

\* a timeout after a setup phase that took time
C8_Witness == stop = "Timeout" /\ obsAt >= 1 /\ stopAt >= obsAt + 1

\* C9: on the success path after stream exhaustion the start instant is
\* recorded, or (no task reached admission) it is not read.
C9_SuccessPathHasStart ==
    (stop = "AllReported" /\ success = count /\ exit # "running")
    => (start # Unset \/ exit # "panic")

\* C10: in every state where the start instant is set, all N drivers have
\* finished the task-construction step.
C10_StartAfterAllConstructed ==
    start # Unset => \A i \in Drivers : pc[i] # "task"

\* the start instant was taken after a setup phase of two drivers that took
\* time
C10_Witness == start # Unset /\ start >= 1 /\ count >= 2

\* C11: every permit acquired is released exactly once, on success and on
\* failure of create/start: free permits plus permits held by drivers
\* between acquire and the end of start make up the pool, and a driver in
\* wait, in delete, finished or failed holds none.
C11_PermitReleasedOnce ==
    /\ available + Cardinality(holders) =
           (IF parallel = 0 THEN count ELSE parallel)
    /\ \A i \in Drivers : i \in holders <=> pc[i] \in {"create", "start"}

\* a driver failed in create or start, another one finished start, and the
\* whole pool is free again
C11_Witness ==
    /\ \E i \in Drivers : failedAt[i] \in {"create", "start"}
    /\ \E i \in Drivers : pc[i] = "wait"
    /\ holders = {}
    /\ available = (IF parallel = 0 THEN count ELSE parallel)

\* the drivers whose create, start, wait or delete returned an error
LifecycleFailed == {i \in Drivers : failedAt[i] \notin {"none", "task"}}

\* C12: a create/start/wait/delete failure is local.  When every backend
\* call returns, no task construction fails, no timeout is set and no
\* interrupt stops the loop, the run consumes all N outcomes and ends with
\* failed = number of failing tasks, success = N - failed, incomplete = 0,
\* as a failure when a task failed.
C12_LifecycleFailureIsLocal ==
    <>(\/ stop = "Cancelled"
       \/ \E i \in Drivers : failedAt[i] = "task"
       \/ /\ stop = "AllReported" /\ exit # "running"
          /\ reported = Drivers
          /\ failed = Cardinality(LifecycleFailed)
          /\ success = count - failed
          /\ incomplete = 0
          /\ (failed > 0 => exit = "err"))

\* a finished run in which one task failed in the lifecycle under a pool of
\* one permit and the other task succeeded after it
C12_Witness ==
    /\ parallel = 1 /\ count >= 2
    /\ stop = "AllReported" /\ exit = "err"
    /\ failed >= 1 /\ success >= 1 /\ incomplete = 0
    /\ \E i \in Drivers : failedAt[i] \in {"create", "start"}

\* C13: the run reports success only if success = N; success counts
\* exactly the consumed Ok outcomes, each once, so success = N only when
\* each of the N drivers completed construct, create, start, wait and delete
\* without error and its outcome was consumed.
C13_SuccessOnlyIfAllOk ==
    /\ exit = "ok" => success = count
    /\ success = Cardinality({i \in reported : failedAt[i] = "none"})
    /\ \A i \in reported : pc[i] = "done"
    /\ success = count
           => \A i \in Drivers :
                  pc[i] = "done" /\ failedAt[i] = "none" /\ i \in reported

\* a run of two tasks reported as a success
C13_Witness == exit = "ok" /\ count >= 2 /\ success = count

\* the barrier release was observed too late for the watchdog to come due
\* within the clock's range
ClockHorizon == obsAt # Unset /\ obsAt + timeout > MaxTime

\* C14: with timeout > 0, wait calls that never return and every other call
\* succeeding, the run does not hang: the barrier releases, the watchdog
\* fires, the loop stops with Timeout and the run is reported as a failure
\* with incomplete > 0 (for P < N and for every other P; no interrupt).
C14_HungWaitsTimeOut ==
    <>(\/ stop = "Cancelled"
       \/ count = 0
       \/ \E i \in Drivers : failedAt[i] # "none"
       \/ ClockHorizon
       \/ /\ stop = "Timeout" /\ phase = "Measuring"
          /\ exit = "err" /\ incomplete > 0)

\* the timeout ended a run whose tasks all hang in wait behind a pool
\* smaller than the task count
C14_Witness ==
    /\ parallel >= 1 /\ parallel < count
    /\ stop = "Timeout" /\ exit = "err" /\ incomplete = count
    /\ \A i \in Drivers : pc[i] = "wait"

\* C15: tasks blocked in wait or delete do not starve admission.  With
\* timeout = 0, no interrupt and create/start returning, every driver that
\* passed the barrier eventually acquires a permit and gets through create
\* to start (or ends with create's error), even if no wait call returns.
C15_AdmissionNotStarved ==
    \A i \in 1..MaxCount :
        (i \in Drivers /\ pc[i] = "acquire")
            ~> (\/ stop = "Cancelled"
                \/ (i \in Drivers /\ pc[i] \notin {"acquire", "create"}))

\* under a pool of one permit a driver is in start while another one is
\* still blocked in wait
C15_Witness ==
    /\ parallel = 1 /\ count >= 2
    /\ \E i, j \in Drivers : pc[i] = "wait" /\ pc[j] = "start"

\* a driver is past the barrier rendezvous
PastBarrier(i) == pc[i] \in {"acquire", "create", "start", "wait", "delete"}
                      \/ (pc[i] = "done" /\ failedAt[i] # "task")

\* C16: the Setup Barrier releases at most once and only when all N drivers
\* and the orchestrator have arrived: while a driver has not finished its
\* task construction, no driver is past the barrier or holds a permit and
\* the loop is still in Setup.
C16_BarrierReleasesWhenAllArrived ==
    /\ arrived <= count + 1
    /\ released <=> (arrived = count + 1)
    /\ released => (orchArrived /\ \A i \in Drivers : pc[i] \notin {"task", "arrive"}
                                                      /\ failedAt[i] # "task")
    /\ (\E i \in Drivers : pc[i] \in {"task", "arrive"})
           => (/\ phase = "Setup"
               /\ holders = {}
               /\ \A j \in Drivers : ~PastBarrier(j))
    /\ (phase = "Measuring" \/ \E j \in Drivers : PastBarrier(j)) => released

\* the barrier of two drivers and the orchestrator has released: the loop is
\* measuring, one driver is admitted, the other has yet to be woken
C16_Witness ==
    /\ count >= 2 /\ released /\ phase = "Measuring"
    /\ \E i, j \in Drivers : pc[i] = "barrier" /\ pc[j] = "create"

\* C17: each driver takes its steps strictly in the order construct,
\* barrier, acquire, create, start (with the release), wait, delete, one at
\* a time and never back; a failing backend call ends the driver at once,
\* which then does nothing more, and its Fail outcome is counted once.
C17_StepsInOrderFailStops ==
    [][\A i \in Drivers :
          /\ pc'[i] # pc[i]
                => \/ /\ Rank(pc'[i]) = Rank(pc[i]) + 1
                      /\ failedAt'[i] = "none"
                   \/ /\ pc'[i] = "done"
                      /\ pc[i] \in {"task", "create", "start", "wait", "delete"}
                      /\ failedAt'[i] = pc[i]
          /\ pc'[i] = pc[i] => failedAt'[i] = failedAt[i]
          /\ failedAt[i] # "none" => pc[i] = "done"
          /\ i \in reported => i \in reported'
          /\ failed' = Cardinality({j \in reported' : failedAt'[j] # "none"})
      ]_vars

\* a driver that failed in start had its outcome consumed while another
\* driver went on to delete
C17_Witness ==
    /\ \E i \in reported : failedAt[i] = "start"
    /\ \E j \in Drivers : pc[j] = "delete"
    /\ failed = 1

\* C18: the interrupt branch is enabled while the loop runs, before and
\* after the barrier release; taking it ends the loop in that step, and
\* from then on no outcome is consumed and success, failed and incomplete
\* keep their values.
C18_InterruptStopsLoop ==
    [][/\ stop = "none" => ENABLED CtrlC
       /\ (stop = "none" /\ stop' = "Cancelled")
              => (/\ <<success, failed, incomplete, reported>>' =
                         <<success, failed, incomplete, reported>>
                  /\ stopAt' = now)
       /\ stop = "Cancelled"
              => (/\ stop' = "Cancelled"
                  /\ <<success, failed, incomplete, reported>>' =
                         <<success, failed, incomplete, reported>>)
      ]_vars

\* interrupted during setup with a finished driver whose outcome was never
\* consumed; the run ended as a failure
C18_Witness ==
    /\ stop = "Cancelled" /\ phase = "Setup" /\ exit = "err"
    /\ \E i \in Drivers : pc[i] = "done" /\ i \notin reported
    /\ incomplete >= 1

\* C19 (as stated): the start instant is recorded in the step in which the
\* loop's phase changes from Setup to Measuring, so that it is set in every
\* state where the phase is Measuring.
C19_MeasuringHasStart == phase = "Measuring" => start # Unset

\* C19 (amended): the start instant is recorded by a driver, in the step in
\* which it is the first to acquire an admission permit after the barrier
\* released; the loop's step from Setup to Measuring leaves it untouched.
C19_StartRecordedByFirstAdmission ==
    [][/\ start' # start
              => (/\ start = Unset /\ start' = now
                  /\ released
                  /\ \E i \in Drivers : pc[i] = "acquire" /\ pc'[i] = "create")
       /\ phase' # phase
              => (/\ phase = "Setup" /\ phase' = "Measuring"
                  /\ released
                  /\ start' = start)
      ]_vars

\* a driver has recorded the start instant while the loop has not yet
\* consumed the barrier release
C19_Witness == start # Unset /\ phase = "Setup" /\ holders # {}

\* a driver has been granted a permit at some point
Admitted(i) == pc[i] \in {"create", "start", "wait", "delete"}
                   \/ (pc[i] = "done" /\ failedAt[i] # "task")

\* C20: the start instant is written exactly once, by the first admission
\* grant: it is set exactly when some driver has been admitted, the grant
\* that finds it unset stores the current instant, and every later set
\* leaves it unchanged.
C20_StartWrittenOnce ==
    [][/\ start # Unset => start' = start
       /\ \A i \in Drivers :
              (pc[i] = "acquire" /\ pc'[i] = "create" /\ start = Unset)
                  => start' = now
       /\ (start' # Unset) <=> (\E i \in Drivers : Admitted(i)')
       /\ start' <= now'
      ]_vars

\* under a pool of one permit a second driver was admitted after the first
\* one, at an instant later than the recorded start
C20_Witness ==
    /\ parallel = 1 /\ count >= 2
    /\ start # Unset /\ now > start
    /\ \E i, j \in Drivers : pc[i] = "wait" /\ pc[j] = "create"
====
